---- MODULE Spec2Model ----
(***************************************************************************)
(* Orders & Inventory microservice (src/Order_Inventory_Assignment).       *)
(*                                                                         *)
(* Two implementations of the same service live in the repository:         *)
(*   - the CRUD layer  app/crud.py (ProductCRUD, OrderCRUD) over           *)
(*     app/database.py memory_store, with the webhook handler              *)
(*     app/webhooks.py on top of it;                                       *)
(*   - the served application app/main.py, whose routes work on the        *)
(*     module globals products_db / orders_db.                             *)
(* Both are modelled, each over its own store.  Every operation is one     *)
(* action; an operation that raises HTTPException records the status code  *)
(* in `last` and leaves the stores as the code leaves them at the raise.   *)
(***************************************************************************)
EXTENDS Integers, FiniteSets, Sequences, TLC

VARIABLES
    products,          \* memory_store.products : id -> Product
    orders,            \* memory_store.orders   : id -> Order
    product_counter,   \* memory_store.product_counter
    order_counter,     \* memory_store.order_counter
    processed_events,  \* webhook_handler.processed_events
    products_db,       \* app/main.py products_db
    orders_db,         \* app/main.py orders_db
    db_product_counter,\* app/main.py product_counter
    db_order_counter,  \* app/main.py order_counter
    layer,             \* which implementation the caller drives
    last,              \* the last call: operation, HTTP status, answer
    reqs,              \* in-flight create_order requests (SpecConc)
    stock0,            \* stock of the contended product when the race starts
    delivered,         \* history: the webhook bodies answered "processed"
    issued,            \* history: the ids create_product has returned
    restored,          \* history: the orders cancel_order has canceled
    verified           \* history: the bodies WebhookHandler has verified and parsed

vars == <<products, orders, product_counter, order_counter, processed_events,
          products_db, orders_db, db_product_counter, db_order_counter,
          layer, last, reqs, stock0, delivered, issued, restored, verified>>

crud_vars == <<products, orders, product_counter, order_counter, processed_events>>
db_vars == <<products_db, orders_db, db_product_counter, db_order_counter>>
conc_vars == <<reqs, stock0>>

----------------------------------------------------------------------------
(* Bounds of the model *)

MaxProducts == 1    \* products ever created per store
MaxOrders == 1      \* orders ever created per store
MaxStock == 3      \* stock never counted beyond this
NumReqs == 2       \* create_order calls in flight at once
MaxEvents == 1      \* webhook events remembered by the handler
MaxCatalog == 2     \* products ever created per store when only products are driven

----------------------------------------------------------------------------
(* Values *)

\* app/models.py OrderStatus
PENDING == "PENDING"
PAID == "PAID"
SHIPPED == "SHIPPED"
CANCELED == "CANCELED"
OrderStatus == {PENDING, PAID, SHIPPED, CANCELED}

\* Python None where a string-typed field holds it
None == "None"

Skus == {"A", "B"}
Stocks == 0..2
Quantities == 1..2
ProductIds == 1..(MaxProducts + 1)   \* includes an id no product ever gets
OrderIds == 1..(MaxOrders + 1)       \* includes an id no order ever gets

\* dict helpers
Put(f, k, v) == [i \in (DOMAIN f) \cup {k} |-> IF i = k THEN v ELSE f[i]]
Del(f, k) == [i \in (DOMAIN f) \ {k} |-> f[i]]
Empty == [i \in {} |-> 0]

\* the record kept in `last`: the operation, the HTTP status of the
\* HTTPException it raised (200/201/204 when it returned) and, for a webhook,
\* the "status" of the answer
Call(op, code, result) == [op |-> op, code |-> code, result |-> result]

\* the call returned instead of raising
Returned(c) == c.code \in {200, 201, 204}

\* Python None where an int-typed field holds it (no stock or price the model
\* computes comes near it)
NoneInt == -99

Names == {"n1", "n2"}
Prices == {1, 2}

\* app/models.py ProductCreate: sku, name, price > 0, stock >= 0
ProductCreate(skus, names, prices, stocks) ==
    [sku : skus, name : names, price : {p \in prices : p > 0},
     stock : {s \in stocks : s >= 0}]

\* app/models.py ProductUpdate: every field optional; `set` is the pydantic
\* __fields_set__ (what dict(exclude_unset=True) keeps), unset fields are None
ProductUpdate(skus, names, prices, stocks) ==
    {u \in [set : SUBSET {"sku", "name", "price", "stock"},
            sku : skus \cup {None}, name : names \cup {None},
            price : {p \in prices : p > 0} \cup {NoneInt},
            stock : {s \in stocks : s >= 0} \cup {NoneInt}] :
        /\ "sku" \notin u.set => u.sku = None
        /\ "name" \notin u.set => u.name = None
        /\ "price" \notin u.set => u.price = NoneInt
        /\ "stock" \notin u.set => u.stock = NoneInt}

\* app/models.py OrderCreate (= OrderBase): product_id, quantity > 0 and a
\* status the caller may supply (default PENDING)
OrderCreate(pids, qtys, statuses) ==
    [product_id : pids, quantity : {q \in qtys : q > 0}, status : statuses]

\* app/models.py OrderUpdate: status optional; set = __fields_set__
OrderUpdate ==
    {u \in [set : SUBSET {"status"}, status : OrderStatus \cup {None}] :
        "status" \notin u.set => u.status = None}

\* Python truthiness of an Optional[str]
Truthy(s) == s # None /\ s # ""

----------------------------------------------------------------------------
(* app/crud.py ProductCRUD over memory_store *)

\* crud.py:16 / crud.py:47  any(p.sku == sku for p in products.values())
SkuTaken(store, sku) == \E i \in DOMAIN store : store[i].sku = sku

\* the setattr loop over dict() without exclude_unset: the fields the
\* caller left out are written too, with their default None
ApplyProductUpdate_AllFields(p, u) ==
    [sku |-> u.sku, name |-> u.name, price |-> u.price, stock |-> u.stock]

\* setattr loop over dict(exclude_unset=True)
ApplyProductUpdate(p, u) ==
    [sku   |-> IF "sku" \in u.set THEN u.sku ELSE p.sku,
     name  |-> IF "name" \in u.set THEN u.name ELSE p.name,
     price |-> IF "price" \in u.set THEN u.price ELSE p.price,
     stock |-> IF "stock" \in u.set THEN u.stock ELSE p.stock]

\* crud.py:24  memory_store.product_counter += 1, losing the update
Incremented_Lost(counter) == counter

\* crud.py:24 / main.py:101  product_counter += 1
Incremented(counter) == counter + 1

\* crud.py:12-25; the model stops creating once `cap` products were created
ProductCRUD_create_product_upto(d, cap) ==
    /\ layer = "crud"
    /\ IF SkuTaken(products, d.sku)
       THEN /\ last' = Call("create_product", 409, "-")
            /\ UNCHANGED <<products, product_counter>>
       ELSE /\ product_counter <= cap
            /\ products' = Put(products, product_counter, d)
            /\ product_counter' = Incremented(product_counter)
            /\ last' = Call("create_product", 200, "-")
    /\ issued' = IF Returned(last') THEN issued \cup {product_counter} ELSE issued
    /\ UNCHANGED <<orders, order_counter, processed_events, db_vars, layer, conc_vars,
                   delivered, restored, verified>>

ProductCRUD_create_product(d) == ProductCRUD_create_product_upto(d, MaxProducts)

ProductCRUD_update_product(product_id, u) ==
    /\ layer = "crud"
    /\ IF product_id \notin DOMAIN products
       THEN /\ last' = Call("update_product", 404, "-")
            /\ UNCHANGED products
       ELSE IF /\ Truthy(u.sku)
               /\ u.sku # products[product_id].sku
               /\ SkuTaken(products, u.sku)
       THEN /\ last' = Call("update_product", 409, "-")
            /\ UNCHANGED products
       ELSE /\ products' = [products EXCEPT
                               ![product_id] = ApplyProductUpdate(@, u)]
            /\ last' = Call("update_product", 200, "-")
    /\ UNCHANGED <<product_counter, orders, order_counter, processed_events,
                   db_vars, layer, conc_vars, delivered, issued, restored, verified>>

\* the test of crud.py:66 looking at PENDING orders only: a PAID order no
\* longer keeps its product
BlockingOrders_PendingOnly(product_id) ==
    {i \in DOMAIN orders :
        /\ orders[i].product_id = product_id
        /\ orders[i].status = PENDING}

\* crud.py:64-67 the orders that block the deletion of a product
BlockingOrders(product_id) ==
    {i \in DOMAIN orders :
        /\ orders[i].product_id = product_id
        /\ orders[i].status \in {PENDING, PAID}}

ProductCRUD_delete_product(product_id) ==
    /\ layer = "crud"
    /\ IF product_id \notin DOMAIN products
       THEN /\ last' = Call("delete_product", 404, "-")
            /\ UNCHANGED products
       ELSE IF BlockingOrders(product_id) # {}
       THEN /\ last' = Call("delete_product", 400, "-")
            /\ UNCHANGED products
       ELSE /\ products' = Del(products, product_id)
            /\ last' = Call("delete_product", 200, "-")
    /\ UNCHANGED <<product_counter, orders, order_counter, processed_events,
                   db_vars, layer, conc_vars, delivered, issued, restored, verified>>

----------------------------------------------------------------------------
(* app/crud.py OrderCRUD over memory_store *)

\* the comparison of crud.py:87 off by one: an order for one unit more than
\* the stock passes
InsufficientStock_OffByOne(product, quantity) == product.stock < quantity - 1

\* crud.py:87  product.stock < order_data.quantity
InsufficientStock(product, quantity) == product.stock < quantity

\* the Order built at crud.py:96-100: id from the counter, the fields of
\* order_data.dict() (product_id, quantity, status); created_at is not modelled
NewOrder(d) ==
    [product_id |-> d.product_id, quantity |-> d.quantity, status |-> d.status]

OrderCRUD_create_order(d) ==
    /\ layer = "crud"
    /\ IF d.product_id \notin DOMAIN products
       THEN /\ last' = Call("create_order", 404, "-")
            /\ UNCHANGED <<products, orders, order_counter>>
       ELSE IF products[d.product_id].stock = NoneInt
       THEN \* None < int raises TypeError
            /\ last' = Call("create_order", 500, "-")
            /\ UNCHANGED <<products, orders, order_counter>>
       ELSE IF InsufficientStock(products[d.product_id], d.quantity)
       THEN /\ last' = Call("create_order", 409, "-")
            /\ UNCHANGED <<products, orders, order_counter>>
       ELSE /\ order_counter <= MaxOrders
            /\ products' = [products EXCEPT ![d.product_id].stock = @ - d.quantity]
            /\ orders' = Put(orders, order_counter, NewOrder(d))
            /\ order_counter' = order_counter + 1
            /\ last' = Call("create_order", 200, "-")
    /\ UNCHANGED <<product_counter, processed_events, db_vars, layer, conc_vars,
                   delivered, issued, restored, verified>>

\* the table of crud.py:126-131 with SHIPPED no longer final
ValidTransitions_ShippedCancels(status) ==
    CASE status = PENDING -> {PAID, CANCELED}
      [] status = PAID -> {SHIPPED, CANCELED}
      [] status = SHIPPED -> {CANCELED}
      [] status = CANCELED -> {}
      [] OTHER -> {}

\* crud.py:126-133  valid_transitions.get(order.status, [])
ValidTransitions(status) ==
    CASE status = PENDING -> {PAID, CANCELED}
      [] status = PAID -> {SHIPPED, CANCELED}
      [] status = SHIPPED -> {}
      [] status = CANCELED -> {}
      [] OTHER -> {}

\* crud.py:119-144 with the setattr loop run before the transition is
\* validated: a refused update has already written the status
update_order_result_WriteFirst(os, order_id, u) ==
    IF order_id \notin DOMAIN os
    THEN [code |-> 404, orders |-> os]
    ELSE [code |-> IF Truthy(u.status)
                      /\ u.status \notin ValidTransitions(os[order_id].status)
                   THEN 400 ELSE 200,
          orders |-> IF "status" \in u.set
                     THEN [os EXCEPT ![order_id].status = u.status]
                     ELSE os]

\* crud.py:119-144 as a function of the order store: the status code and the
\* store after the call
update_order_result(os, order_id, u) ==
    IF order_id \notin DOMAIN os
    THEN [code |-> 404, orders |-> os]
    ELSE IF Truthy(u.status) /\ u.status \notin ValidTransitions(os[order_id].status)
    THEN [code |-> 400, orders |-> os]
    ELSE [code |-> 200,
          orders |-> IF "status" \in u.set
                     THEN [os EXCEPT ![order_id].status = u.status]
                     ELSE os]

OrderCRUD_update_order(order_id, u) ==
    /\ layer = "crud"
    /\ LET r == update_order_result(orders, order_id, u) IN
         /\ orders' = r.orders
         /\ last' = Call("update_order", r.code, "-")
    /\ UNCHANGED <<products, product_counter, order_counter, processed_events,
                   db_vars, layer, conc_vars, delivered, issued, restored, verified>>

OrderCRUD_cancel_order(order_id) ==
    /\ layer = "crud"
    /\ IF order_id \notin DOMAIN orders
       THEN /\ last' = Call("cancel_order", 404, "-")
            /\ UNCHANGED <<products, orders>>
       ELSE IF orders[order_id].status \in {SHIPPED, CANCELED}
       THEN /\ last' = Call("cancel_order", 400, "-")
            /\ UNCHANGED <<products, orders>>
       ELSE IF orders[order_id].product_id \notin DOMAIN products
       THEN \* get_product raises before anything is written
            /\ last' = Call("cancel_order", 404, "-")
            /\ UNCHANGED <<products, orders>>
       ELSE IF products[orders[order_id].product_id].stock = NoneInt
       THEN \* None += int raises TypeError
            /\ last' = Call("cancel_order", 500, "-")
            /\ UNCHANGED <<products, orders>>
       ELSE /\ products[orders[order_id].product_id].stock + orders[order_id].quantity
                  <= MaxStock
            /\ products' = [products EXCEPT ![orders[order_id].product_id].stock =
                                                @ + orders[order_id].quantity]
            /\ orders' = [orders EXCEPT ![order_id].status = CANCELED]
            /\ last' = Call("cancel_order", 200, "-")
    /\ restored' = IF Returned(last') THEN restored \cup {order_id} ELSE restored
    /\ UNCHANGED <<product_counter, order_counter, processed_events,
                   db_vars, layer, conc_vars, delivered, issued, verified>>

\* the test of crud.py:171 letting every final order go
Deletable_AnyFinal(order) == order.status \in {CANCELED, SHIPPED}

\* crud.py:171  only a canceled order may be deleted
Deletable(order) == order.status = CANCELED

OrderCRUD_delete_order(order_id) ==
    /\ layer = "crud"
    /\ IF order_id \notin DOMAIN orders
       THEN /\ last' = Call("delete_order", 404, "-")
            /\ UNCHANGED orders
       ELSE IF ~Deletable(orders[order_id])
       THEN /\ last' = Call("delete_order", 400, "-")
            /\ UNCHANGED orders
       ELSE /\ orders' = Del(orders, order_id)
            /\ last' = Call("delete_order", 200, "-")
    /\ UNCHANGED <<products, product_counter, order_counter, processed_events,
                   db_vars, layer, conc_vars, delivered, issued, restored, verified>>

----------------------------------------------------------------------------
(* app/database.py InMemoryStore *)

\* database.py:35-41  memory_store.reset(), as the fixture of
\* tests/test_products.py calls it before and after each test, whichever
\* implementation the test drives
InMemoryStore_reset ==
    /\ products' = Empty
    /\ orders' = Empty
    /\ product_counter' = 1
    /\ order_counter' = 1
    /\ last' = Call("reset", 200, "-")
    /\ UNCHANGED <<processed_events, db_vars, layer, conc_vars, delivered, issued,
                   restored, verified>>

----------------------------------------------------------------------------
(* Webhook requests *)

\* Strings that are concatenated are sequences of chunks; "_" is a chunk of
\* its own, so that f"{event_type}_{payment_id}_{order_id}" is what it is in
\* Python: a flat string in which the separators cannot be told apart from
\* underscores inside the fields.
PaymentSucceeded == <<"payment.succeeded">>
EventTypes == {PaymentSucceeded, <<"refund">>}
PaymentIds == {<<"pay">>}

\* a request body: well-formed JSON for PaymentWebhook (ok) or not
Payload(types, payments, oids) ==
    [ok : BOOLEAN, event_type : types, payment_id : payments, order_id : oids]

\* webhooks.py:14 and main.py:219, the defaults when WEBHOOK_SECRET is unset
HandlerSecret == "your-webhook-secret-key"
AppSecret == "webhook-secret-key"
Secrets == {HandlerSecret, AppSecret}

\* HMAC-SHA256 of the payload under the secret in the given text encoding,
\* idealised as collision free: equal digests have equal inputs
Digest(enc, secret, payload) == <<enc, secret, payload>>

\* the X-Webhook-Signature header: absent, or an optional "sha256=" prefix
\* followed by a digest computed by the sender
Header(payloads) ==
    [present : BOOLEAN, prefix : BOOLEAN, enc : {"hex", "b64"},
     secret : Secrets, signed : payloads]

\* the header value with a leading "sha256=" removed
Stripped(h) == Digest(h.enc, h.secret, h.signed)

----------------------------------------------------------------------------
(* app/webhooks.py WebhookHandler *)

\* webhooks.py:17-29: hex digest; the prefix is removed if present
verify_signature(payload, h) ==
    Digest("hex", HandlerSecret, payload) = Stripped(h)

\* webhooks.py:62
EventId(w) ==
    w.event_type \o <<"_">> \o w.payment_id \o <<"_">> \o <<ToString(w.order_id)>>

WebhookHandler_process_payment_webhook(h, w) ==
    /\ layer = "crud"
    /\ IF ~h.present
       THEN /\ last' = Call("webhook", 401, "-")
            /\ UNCHANGED <<orders, processed_events>>
       ELSE IF ~verify_signature(w, h)
       THEN /\ last' = Call("webhook", 403, "-")
            /\ UNCHANGED <<orders, processed_events>>
       ELSE IF ~w.ok
       THEN /\ last' = Call("webhook", 400, "-")
            /\ UNCHANGED <<orders, processed_events>>
       ELSE IF EventId(w) \in processed_events
       THEN \* is_replay
            /\ last' = Call("webhook", 200, "duplicate")
            /\ UNCHANGED <<orders, processed_events>>
       ELSE \* is_replay has recorded the event before anything else is looked at
            /\ Cardinality(processed_events) < MaxEvents
            /\ processed_events' = processed_events \cup {EventId(w)}
            /\ IF w.event_type # PaymentSucceeded
               THEN /\ last' = Call("webhook", 200, "unhandled")
                    /\ UNCHANGED orders
               ELSE IF w.order_id \notin DOMAIN orders
               THEN /\ last' = Call("webhook", 404, "-")
                    /\ UNCHANGED orders
               ELSE IF orders[w.order_id].status # PENDING
               THEN /\ last' = Call("webhook", 200, "ignored")
                    /\ UNCHANGED orders
               ELSE LET r == update_order_result(orders, w.order_id,
                                   [set |-> {"status"}, status |-> PAID]) IN
                      /\ orders' = r.orders
                      /\ last' = Call("webhook", r.code, "processed")
    /\ delivered' = IF last'.result = "processed" THEN delivered \cup {w} ELSE delivered
    /\ verified' = IF h.present /\ verify_signature(w, h) /\ w.ok
                   THEN verified \cup {w} ELSE verified
    /\ UNCHANGED <<products, product_counter, order_counter, db_vars, layer, conc_vars,
                   issued, restored>>

----------------------------------------------------------------------------
(* app/main.py: the routes of the served application over products_db and
   orders_db *)

\* main.py:91-104; the model stops creating once `cap` products were created
create_product_upto(d, cap) ==
    /\ layer = "app"
    /\ IF SkuTaken(products_db, d.sku)
       THEN /\ last' = Call("create_product", 409, "-")
            /\ UNCHANGED <<products_db, db_product_counter>>
       ELSE /\ db_product_counter < cap
            /\ db_product_counter' = Incremented(db_product_counter)
            /\ products_db' = Put(products_db, db_product_counter', d)
            /\ last' = Call("create_product", 201, "-")
    /\ issued' = IF Returned(last') THEN issued \cup {db_product_counter'} ELSE issued
    /\ UNCHANGED <<orders_db, db_order_counter, crud_vars, layer, conc_vars, delivered,
                   restored, verified>>

create_product(d) == create_product_upto(d, MaxProducts)

update_product(product_id, u) ==
    /\ layer = "app"
    /\ IF product_id \notin DOMAIN products_db
       THEN /\ last' = Call("update_product", 404, "-")
            /\ UNCHANGED products_db
       ELSE IF /\ Truthy(u.sku)
               /\ u.sku # products_db[product_id].sku
               /\ \E other \in DOMAIN products_db :
                     other # product_id /\ products_db[other].sku = u.sku
       THEN /\ last' = Call("update_product", 409, "-")
            /\ UNCHANGED products_db
       ELSE /\ products_db' = [products_db EXCEPT
                                  ![product_id] = ApplyProductUpdate(@, u)]
            /\ last' = Call("update_product", 200, "-")
    /\ UNCHANGED <<db_product_counter, orders_db, db_order_counter, crud_vars,
                   layer, conc_vars, delivered, issued, restored, verified>>

\* main.py:106-109  GET /products: list(products_db.values())
get_products == {products_db[i] : i \in DOMAIN products_db}

\* main.py:146-148  any order of the product, whatever its status
HasOrders(product_id) ==
    \E i \in DOMAIN orders_db : orders_db[i].product_id = product_id

delete_product(product_id) ==
    /\ layer = "app"
    /\ IF product_id \notin DOMAIN products_db
       THEN /\ last' = Call("delete_product", 404, "-")
            /\ UNCHANGED products_db
       ELSE IF HasOrders(product_id)
       THEN /\ last' = Call("delete_product", 400, "-")
            /\ UNCHANGED products_db
       ELSE /\ products_db' = Del(products_db, product_id)
            /\ last' = Call("delete_product", 204, "-")
    /\ UNCHANGED <<db_product_counter, orders_db, db_order_counter, crud_vars,
                   layer, conc_vars, delivered, issued, restored, verified>>

\* main.py:164  product.stock < order.quantity
StockShort(product, quantity) == product.stock < quantity

create_order(d) ==
    /\ layer = "app"
    /\ IF d.product_id \notin DOMAIN products_db
       THEN /\ last' = Call("create_order", 404, "-")
            /\ UNCHANGED <<products_db, orders_db, db_order_counter>>
       ELSE IF products_db[d.product_id].stock = NoneInt
       THEN \* None < int raises TypeError
            /\ last' = Call("create_order", 500, "-")
            /\ UNCHANGED <<products_db, orders_db, db_order_counter>>
       ELSE IF StockShort(products_db[d.product_id], d.quantity)
       THEN /\ last' = Call("create_order", 409, "-")
            /\ UNCHANGED <<products_db, orders_db, db_order_counter>>
       ELSE /\ db_order_counter < MaxOrders
            /\ products_db' = [products_db EXCEPT ![d.product_id].stock = @ - d.quantity]
            /\ db_order_counter' = db_order_counter + 1
            /\ orders_db' = Put(orders_db, db_order_counter + 1,
                                [product_id |-> d.product_id, quantity |-> d.quantity,
                                 status |-> PENDING])
            /\ last' = Call("create_order", 201, "-")
    /\ UNCHANGED <<db_product_counter, crud_vars, layer, conc_vars, delivered, issued,
                   restored, verified>>

\* main.py:197-210: the fields of the body are written as they come
update_order(order_id, u) ==
    /\ layer = "app"
    /\ IF order_id \notin DOMAIN orders_db
       THEN /\ last' = Call("update_order", 404, "-")
            /\ UNCHANGED orders_db
       ELSE /\ orders_db' = IF "status" \in u.set
                            THEN [orders_db EXCEPT ![order_id].status = u.status]
                            ELSE orders_db
            /\ last' = Call("update_order", 200, "-")
    /\ UNCHANGED <<products_db, db_product_counter, db_order_counter, crud_vars,
                   layer, conc_vars, delivered, issued, restored, verified>>

\* main.py:52-65: the prefix is required; base64 digest
verify_webhook_signature(h, payload, secret) ==
    /\ h.prefix
    /\ Digest("b64", secret, payload) = Stripped(h)

process_payment_webhook(h, w) ==
    /\ layer = "app"
    /\ IF ~h.present
       THEN \* Header(...) is required: the framework answers 422
            /\ last' = Call("webhook", 422, "-")
            /\ UNCHANGED orders_db
       ELSE IF ~verify_webhook_signature(h, w, AppSecret)
       THEN /\ last' = Call("webhook", 403, "-")
            /\ UNCHANGED orders_db
       ELSE IF ~w.ok
       THEN /\ last' = Call("webhook", 422, "-")
            /\ UNCHANGED orders_db
       ELSE IF w.order_id \notin DOMAIN orders_db
       THEN /\ last' = Call("webhook", 404, "-")
            /\ UNCHANGED orders_db
       ELSE IF w.event_type = PaymentSucceeded
       THEN /\ orders_db' = [orders_db EXCEPT ![w.order_id].status = PAID]
            /\ last' = Call("webhook", 200, "processed")
       ELSE /\ last' = Call("webhook", 200, "unhandled")
            /\ UNCHANGED orders_db
    /\ delivered' = IF last'.result = "processed" THEN delivered \cup {w} ELSE delivered
    /\ UNCHANGED <<products_db, db_product_counter, db_order_counter, crud_vars,
                   layer, conc_vars, issued, restored, verified>>

----------------------------------------------------------------------------
(* The service driven one call at a time.  An async route of app/main.py
   has no await between its reads and its writes, so a call is one step. *)

\* what the callers send
NewProducts == ProductCreate(Skus, {"n1"}, {1}, Stocks)
NewOrders == OrderCreate(ProductIds, Quantities, OrderStatus)
Bodies == {w \in Payload(EventTypes, PaymentIds, OrderIds) : w.ok}
\* the header a sender makes for body w: hex digest under the handler's
\* secret, or base64 digest under the application's
Headers(w) ==
    {h \in Header({w}) :
        /\ h.present /\ h.prefix
        /\ \/ h.enc = "hex" /\ h.secret = HandlerSecret
           \/ h.enc = "b64" /\ h.secret = AppSecret}

Init ==
    /\ layer \in {"crud", "app"}
    /\ products = Empty
    /\ orders = Empty
    /\ product_counter = 1
    /\ order_counter = 1
    /\ processed_events = {}
    /\ products_db = Empty
    /\ orders_db = Empty
    /\ db_product_counter = 0
    /\ db_order_counter = 0
    /\ last = Call("init", 0, "-")
    /\ reqs = Empty
    /\ stock0 = 0
    /\ delivered = {}
    /\ issued = {}
    /\ restored = {}
    /\ verified = {}

\* products are created and deleted, orders are created, updated, canceled
\* and deleted
Next ==
    \/ \E d \in NewProducts : ProductCRUD_create_product(d)
    \/ \E i \in ProductIds : ProductCRUD_delete_product(i)
    \/ \E d \in NewOrders : OrderCRUD_create_order(d)
    \/ \E i \in OrderIds, u \in OrderUpdate : OrderCRUD_update_order(i, u)
    \/ \E i \in OrderIds : OrderCRUD_cancel_order(i)
    \/ \E i \in OrderIds : OrderCRUD_delete_order(i)
    \/ \E d \in NewProducts : create_product(d)
    \/ \E i \in ProductIds : delete_product(i)
    \/ \E d \in NewOrders : create_order(d)
    \/ \E i \in OrderIds, u \in OrderUpdate : update_order(i, u)

Spec == Init /\ [][Next]_vars

\* the same with payment webhooks delivered in between
\* every request body, the ones that are not a PaymentWebhook included
Payloads == Payload(EventTypes, PaymentIds, OrderIds)
\* the body of the request changed on the way: another order
Tampered(w) == [w EXCEPT !.order_id = IF @ = 1 THEN 2 ELSE 1]
\* every signature header a request with body w may come with: none, with
\* or without prefix, either encoding, either secret, made for w or for
\* the body before it was tampered with
Signatures(w) == Header({w, Tampered(w)})

Deliver ==
    \/ \E w \in Payloads : \E h \in Signatures(w) :
          WebhookHandler_process_payment_webhook(h, w)
    \/ \E w \in Payloads : \E h \in Signatures(w) : process_payment_webhook(h, w)

NextWebhook == Next \/ Deliver

SpecWebhook == Init /\ [][NextWebhook]_vars

\* the product store alone: products created, patched and deleted
Patches ==
    {p : p \in {u \in ProductUpdate(Skus \cup {""}, Names, Prices, Stocks) :
                    Cardinality(u.set) <= 1}}

CatalogIds == 1..(MaxCatalog + 1)   \* includes an id no product ever gets

NextStore ==
    \/ \E d \in NewProducts : ProductCRUD_create_product_upto(d, MaxCatalog)
    \/ \E i \in CatalogIds, u \in Patches : ProductCRUD_update_product(i, u)
    \/ \E i \in CatalogIds : ProductCRUD_delete_product(i)
    \/ \E d \in NewProducts : create_product_upto(d, MaxCatalog)
    \/ \E i \in CatalogIds, u \in Patches : update_product(i, u)
    \/ \E i \in CatalogIds : delete_product(i)

SpecStore == Init /\ [][NextStore]_vars

\* the catalogue with orders on it: products are created, patched in one
\* field or in name and price at once (a null name among the values), and
\* deleted while orders reserve stock
CatalogProducts == ProductCreate(Skus, {"n1"}, {1}, {1})
FieldPatches ==
    {p : p \in
        {u \in ProductUpdate(Skus, {"n2"}, {2}, {0}) :
            /\ Cardinality(u.set) = 1 \/ u.set = {"name", "price"}
            /\ "sku" \in u.set => u.sku # None
            /\ "price" \in u.set => u.price # NoneInt
            /\ "stock" \in u.set => u.stock # NoneInt}}
CatalogOrders == OrderCreate(CatalogIds, {1}, {PENDING})

NextCatalog ==
    \/ \E d \in CatalogProducts : ProductCRUD_create_product_upto(d, MaxCatalog)
    \/ \E i \in CatalogIds, u \in FieldPatches : ProductCRUD_update_product(i, u)
    \/ \E i \in CatalogIds : ProductCRUD_delete_product(i)
    \/ \E d \in CatalogOrders : OrderCRUD_create_order(d)
    \/ \E d \in CatalogProducts : create_product_upto(d, MaxCatalog)
    \/ \E i \in CatalogIds, u \in FieldPatches : update_product(i, u)
    \/ \E i \in CatalogIds : delete_product(i)
    \/ \E d \in CatalogOrders : create_order(d)

SpecCatalog == Init /\ [][NextCatalog]_vars

\* every operation of ProductCRUD and OrderCRUD, on a catalogue of several
\* products whose skus are changed to one another
SkuPatches ==
    {p : p \in {u \in ProductUpdate(Skus, {}, {}, {}) :
                    u.set = {"sku"} /\ u.sku # None}}
CrudOrders == OrderCreate(CatalogIds, Quantities, {PENDING})

NextCrud ==
    \/ \E d \in CatalogProducts : ProductCRUD_create_product_upto(d, MaxCatalog)
    \/ \E i \in CatalogIds, u \in SkuPatches : ProductCRUD_update_product(i, u)
    \/ \E i \in CatalogIds : ProductCRUD_delete_product(i)
    \/ \E d \in CrudOrders : OrderCRUD_create_order(d)
    \/ \E i \in OrderIds, u \in OrderUpdate : OrderCRUD_update_order(i, u)
    \/ \E i \in OrderIds : OrderCRUD_cancel_order(i)
    \/ \E i \in OrderIds : OrderCRUD_delete_order(i)

CrudInit == Init /\ layer = "crud"

SpecCrud == CrudInit /\ [][NextCrud]_vars

\* the tests of tests/test_products.py: products are created and deleted,
\* and the fixture resets memory_store between the tests
NextFixture ==
    \/ \E d \in NewProducts : ProductCRUD_create_product_upto(d, MaxCatalog)
    \/ \E i \in CatalogIds : ProductCRUD_delete_product(i)
    \/ \E d \in NewProducts : create_product_upto(d, MaxCatalog)
    \/ \E i \in CatalogIds : delete_product(i)
    \/ InMemoryStore_reset

SpecFixture == Init /\ [][NextFixture]_vars

----------------------------------------------------------------------------
(* OrderCRUD.create_order called by several threads at once.  The function
   holds no lock, so the calls interleave between its statements
   (crud.py:85, 87, 94, 96, 101, 102). *)

Requests == 1..NumReqs

ConcInit ==
    /\ layer = "crud"
    /\ \E s \in Stocks \ {0} :
          /\ products = Put(Empty, 1, [sku |-> "A", name |-> "n1", price |-> 1,
                                       stock |-> s])
          /\ stock0 = s
    /\ orders = Empty
    /\ product_counter = 2
    /\ order_counter = 1
    /\ processed_events = {}
    /\ products_db = Empty
    /\ orders_db = Empty
    /\ db_product_counter = 0
    /\ db_order_counter = 0
    /\ last = Call("init", 0, "-")
    /\ reqs \in [Requests -> [pc : {"get_product"}, product_id : {1},
                              quantity : Quantities, status : {PENDING},
                              id : {0}]]
    /\ delivered = {}
    /\ issued = {}
    /\ restored = {}
    /\ verified = {}

\* crud.py:85  product = ProductCRUD.get_product(order_data.product_id)
conc_get_product(j) ==
    /\ reqs[j].pc = "get_product"
    /\ IF reqs[j].product_id \notin DOMAIN products
       THEN /\ reqs' = [reqs EXCEPT ![j].pc = "raised"]
            /\ last' = Call("create_order", 404, "-")
       ELSE /\ reqs' = [reqs EXCEPT ![j].pc = "check"]
            /\ UNCHANGED last
    /\ UNCHANGED <<crud_vars, db_vars, layer, stock0, delivered, issued, restored, verified>>

\* crud.py:87  if product.stock < order_data.quantity: raise
conc_check(j) ==
    /\ reqs[j].pc = "check"
    /\ IF InsufficientStock(products[reqs[j].product_id], reqs[j].quantity)
       THEN /\ reqs' = [reqs EXCEPT ![j].pc = "raised"]
            /\ last' = Call("create_order", 409, "-")
       ELSE /\ reqs' = [reqs EXCEPT ![j].pc = "decrement"]
            /\ UNCHANGED last
    /\ UNCHANGED <<crud_vars, db_vars, layer, stock0, delivered, issued, restored, verified>>

\* crud.py:94  product.stock -= order_data.quantity
conc_decrement(j) ==
    /\ reqs[j].pc = "decrement"
    /\ products' = [products EXCEPT ![reqs[j].product_id].stock = @ - reqs[j].quantity]
    /\ reqs' = [reqs EXCEPT ![j].pc = "construct"]
    /\ UNCHANGED <<orders, product_counter, order_counter, processed_events,
                   db_vars, layer, last, stock0, delivered, issued, restored, verified>>

\* crud.py:96  order = Order(id=memory_store.order_counter, ...)
conc_construct(j) ==
    /\ reqs[j].pc = "construct"
    /\ reqs' = [reqs EXCEPT ![j].pc = "insert", ![j].id = order_counter]
    /\ UNCHANGED <<crud_vars, db_vars, layer, last, stock0, delivered, issued, restored, verified>>

\* crud.py:101  memory_store.orders[order.id] = order
conc_insert(j) ==
    /\ reqs[j].pc = "insert"
    /\ orders' = Put(orders, reqs[j].id, NewOrder(reqs[j]))
    /\ reqs' = [reqs EXCEPT ![j].pc = "increment"]
    /\ UNCHANGED <<products, product_counter, order_counter, processed_events,
                   db_vars, layer, last, stock0, delivered, issued, restored, verified>>

\* crud.py:102  memory_store.order_counter += 1, then return order
conc_increment(j) ==
    /\ reqs[j].pc = "increment"
    /\ order_counter' = order_counter + 1
    /\ reqs' = [reqs EXCEPT ![j].pc = "returned"]
    /\ last' = Call("create_order", 200, "-")
    /\ UNCHANGED <<products, orders, product_counter, processed_events,
                   db_vars, layer, stock0, delivered, issued, restored, verified>>

ConcNext ==
    \E j \in Requests :
        \/ conc_get_product(j)
        \/ conc_check(j)
        \/ conc_decrement(j)
        \/ conc_construct(j)
        \/ conc_insert(j)
        \/ conc_increment(j)

SpecConc == ConcInit /\ [][ConcNext]_vars

----------------------------------------------------------------------------
(* Properties *)

Held == {PENDING, PAID, SHIPPED}

RECURSIVE SumQuantity(_, _)
SumQuantity(os, S) ==
    IF S = {} THEN 0
    ELSE LET i == CHOOSE x \in S : TRUE IN os[i].quantity + SumQuantity(os, S \ {i})

\* quantity held by the orders of a product that are PENDING, PAID or SHIPPED
Reserved(os, p) ==
    SumQuantity(os, {i \in DOMAIN os : os[i].product_id = p /\ os[i].status \in Held})

\* the transition table of the specification
LegalTransitions ==
    {<<PENDING, PAID>>, <<PENDING, CANCELED>>, <<PAID, SHIPPED>>, <<PAID, CANCELED>>}

\* C1: stock conservation.  A create_order or cancel_order call of the CRUD
\* layer, successful or failed, leaves stock + quantity held by the PENDING,
\* PAID and SHIPPED orders of every product as it was, so the sum stays at
\* the product's initial stock.
C1_StockConservation ==
    [][(layer = "crud" /\ last'.op \in {"create_order", "cancel_order"}) =>
         \A p \in DOMAIN products :
            /\ p \in DOMAIN products'
            /\ products'[p].stock + Reserved(orders', p)
                 = products[p].stock + Reserved(orders, p)]_vars

C3_ConcurrentNoOversell ==
    /\ \A p \in DOMAIN products : products[p].stock >= 0
    /\ SumQuantity(reqs, {j \in DOMAIN reqs : reqs[j].pc = "returned"}) <= stock0

\* C4: status monotonicity.  No update_order, cancel_order or webhook
\* delivery of the CRUD layer changes the status of an order that is SHIPPED
\* or CANCELED.
C4_StatusMonotonic ==
    [][(layer = "crud" /\ last'.op \in {"update_order", "cancel_order", "webhook"}) =>
         \A i \in DOMAIN orders :
            orders[i].status \in {SHIPPED, CANCELED} =>
               /\ i \in DOMAIN orders'
               /\ orders'[i].status = orders[i].status]_vars

\* C5: OrderCRUD.update_order with a status s of the four succeeds exactly
\* on the pairs of the table and then sets the status to s; on every other
\* pair it fails with 400 and leaves the order store unchanged.
C5_UpdateOrderTable ==
    [][(layer = "crud" /\ last'.op = "update_order") =>
         \A i \in DOMAIN orders : \A s \in OrderStatus :
            OrderCRUD_update_order(i, [set |-> {"status"}, status |-> s]) =>
               IF <<orders[i].status, s>> \in LegalTransitions
               THEN /\ last'.code = 200
                    /\ orders' = [orders EXCEPT ![i].status = s]
               ELSE /\ last'.code = 400
                    /\ orders' = orders]_vars

\* C5 witness: an update of a SHIPPED order has just been refused
C5_Witness ==
    /\ layer = "crud"
    /\ last = Call("update_order", 400, "-")
    /\ \E i \in DOMAIN orders : orders[i].status = SHIPPED

\* C6: PUT /orders/{order_id} rejects a change of the status to another
\* status that is not in the table and leaves the status of the order as
\* it was.
C6_PutOrderValidates ==
    [][(layer = "app" /\ last'.op = "update_order") =>
         \A i \in DOMAIN orders_db : \A s \in OrderStatus \ {orders_db[i].status} :
            (/\ update_order(i, [set |-> {"status"}, status |-> s])
             /\ <<orders_db[i].status, s>> \notin LegalTransitions)
            => (~Returned(last') /\ orders_db'[i].status = orders_db[i].status)]_vars

\* C7: a create_order call that returns has taken the quantity from the
\* stock of the product and inserted exactly one order, whose status is
\* PENDING, in OrderCRUD.create_order and in POST /orders alike.
C7_CreateOrderEffect ==
    [][(last'.op = "create_order" /\ Returned(last')) =>
         \A d \in NewOrders :
            /\ OrderCRUD_create_order(d) =>
                  \E i \in DOMAIN orders' \ DOMAIN orders :
                     /\ DOMAIN orders' = DOMAIN orders \cup {i}
                     /\ orders'[i].status = PENDING
                     /\ orders'[i].quantity = d.quantity
                     /\ products'[d.product_id].stock
                          = products[d.product_id].stock - d.quantity
            /\ create_order(d) =>
                  \E i \in DOMAIN orders_db' \ DOMAIN orders_db :
                     /\ DOMAIN orders_db' = DOMAIN orders_db \cup {i}
                     /\ orders_db'[i].status = PENDING
                     /\ orders_db'[i].quantity = d.quantity
                     /\ products_db'[d.product_id].stock
                          = products_db[d.product_id].stock - d.quantity]_vars

\* C8: when OrderCRUD.update_order moves an order from PENDING or PAID to
\* CANCELED, the stock of its product grows by the quantity of the order.
C8_UpdateToCanceledRestores ==
    [][(layer = "crud" /\ last'.op = "update_order") =>
         \A i \in DOMAIN orders :
            (/\ orders[i].status \in {PENDING, PAID}
             /\ orders'[i].status = CANCELED
             /\ orders[i].product_id \in DOMAIN products)
            => products'[orders[i].product_id].stock
                 = products[orders[i].product_id].stock + orders[i].quantity]_vars

\* C9: OrderCRUD.delete_order removes a CANCELED order and nothing else; for
\* an order in any other status it fails, and the order store, the product
\* store and both counters stay as they were.  No stock changes either way.
C9_DeleteOrder ==
    [][(layer = "crud" /\ last'.op = "delete_order") =>
         \A i \in DOMAIN orders :
            OrderCRUD_delete_order(i) =>
               /\ UNCHANGED <<products, product_counter, order_counter>>
               /\ IF orders[i].status = CANCELED
                  THEN Returned(last') /\ orders' = Del(orders, i)
                  ELSE ~Returned(last') /\ orders' = orders]_vars

\* C9 witness: the deletion of a PENDING order has just been refused
C9_Witness ==
    /\ layer = "crud"
    /\ last = Call("delete_order", 400, "-")
    /\ \E i \in DOMAIN orders : orders[i].status = PENDING

\* C10: in both implementations the deletion of an existing product is
\* refused exactly when a stored order of the product is PENDING or PAID
\* (so the two accept and refuse the same deletions).
C10_DeleteProductAgree ==
    [][last'.op = "delete_product" =>
         \A p \in ProductIds :
            /\ (ProductCRUD_delete_product(p) /\ p \in DOMAIN products) =>
                  (Returned(last') <=>
                     ~\E i \in DOMAIN orders :
                         /\ orders[i].product_id = p
                         /\ orders[i].status \in {PENDING, PAID})
            /\ (delete_product(p) /\ p \in DOMAIN products_db) =>
                  (Returned(last') <=>
                     ~\E i \in DOMAIN orders_db :
                         /\ orders_db[i].product_id = p
                         /\ orders_db[i].status \in {PENDING, PAID})]_vars

\* no two products of a store have the same sku
UniqueSkus(store) ==
    \A i, j \in DOMAIN store : i # j => store[i].sku # store[j].sku

\* C11: SKU uniqueness.  After any sequence of create_product,
\* update_product and delete_product calls, with "" and null among the skus
\* of the updates, no two products of a store have the same sku.
C11_SkuUnique ==
    /\ UniqueSkus(products)
    /\ UniqueSkus(products_db)

\* C12: product ids are positive and never reused.  Every create_product call
\* that returns, in ProductCRUD and in POST /products alike, returns an id
\* that is at least 1 and strictly greater than every id returned before,
\* whatever was deleted or refused in between.
C12_ProductIdsIncrease ==
    [][(last'.op = "create_product" /\ Returned(last')) =>
         \E i \in issued' \ issued :
            /\ issued' = issued \cup {i}
            /\ i >= 1
            /\ \A j \in issued : i > j
            /\ IF layer = "crud"
               THEN i \notin DOMAIN products /\ DOMAIN products' = DOMAIN products \cup {i}
               ELSE i \notin DOMAIN products_db
                    /\ DOMAIN products_db' = DOMAIN products_db \cup {i}]_vars

\* C12 witness: a second product was created after the first one was
\* deleted; it got the id 2
C12_Witness ==
    /\ last.op = "create_product" /\ Returned(last)
    /\ issued = {1, 2}
    /\ 1 \notin (DOMAIN products \cup DOMAIN products_db)
    /\ 2 \in (DOMAIN products \cup DOMAIN products_db)

\* C13: idempotent webhook delivery.  A validly signed payment.succeeded
\* body that was answered "processed" once is, when it is delivered again
\* after any other calls, answered "ignored" for a duplicate, and no order
\* changes: the order has made exactly one transition.
C13_IdempotentDelivery ==
    [][last'.op = "webhook" =>
         \A w \in delivered :
            /\ \A h \in Headers(w) :
                  (verify_signature(w, h)
                   /\ WebhookHandler_process_payment_webhook(h, w))
                  => (last'.result = "duplicate" /\ orders' = orders)
            /\ \A h \in Headers(w) :
                  (verify_webhook_signature(h, w, AppSecret)
                   /\ process_payment_webhook(h, w))
                  => (last'.result = "duplicate" /\ orders_db' = orders_db)]_vars

\* the answers that are "ignored" with a reason
Ignored == {"ignored", "duplicate"}

\* C14: a validly signed payment.succeeded delivery for an order that is
\* PAID, SHIPPED or CANCELED returns "ignored" (no error) and leaves every
\* order as it was, in WebhookHandler.process_payment_webhook and in the
\* POST /webhooks/payment route alike; only a PENDING order becomes PAID.
C14_PaidOnlyFromPending ==
    [][last'.op = "webhook" =>
         \A w \in {b \in Bodies : b.event_type = PaymentSucceeded} :
            /\ \A h \in Headers(w) :
                  (/\ w.order_id \in DOMAIN orders
                   /\ orders[w.order_id].status \in {PAID, SHIPPED, CANCELED}
                   /\ verify_signature(w, h)
                   /\ WebhookHandler_process_payment_webhook(h, w))
                  => (/\ Returned(last') /\ last'.result \in Ignored
                      /\ orders' = orders)
            /\ \A h \in Headers(w) :
                  (/\ w.order_id \in DOMAIN orders_db
                   /\ orders_db[w.order_id].status \in {PAID, SHIPPED, CANCELED}
                   /\ verify_webhook_signature(h, w, AppSecret)
                   /\ process_payment_webhook(h, w))
                  => (/\ Returned(last') /\ last'.result \in Ignored
                      /\ orders_db' = orders_db)]_vars

\* the status codes of an authentication error
AuthenticationError == {401, 403}

\* the header is not the HMAC of the body under the secret: there is none,
\* it was made for another body, or it was made with another secret
NotHmacOf(h, w, secret) == ~h.present \/ h.signed # w \/ h.secret # secret

\* C15: signature rejection.  A webhook request whose signature is missing,
\* made for another body or made with another secret is rejected with an
\* authentication error, whether or not its body parses, and changes neither
\* the dedup set nor any order or product.
C15_SignatureRejection ==
    [][last'.op = "webhook" =>
         \A w \in Payloads : \A h \in Signatures(w) :
            /\ (NotHmacOf(h, w, HandlerSecret)
                /\ WebhookHandler_process_payment_webhook(h, w))
               => (/\ last'.code \in AuthenticationError
                   /\ UNCHANGED <<processed_events, orders, products>>)
            /\ (NotHmacOf(h, w, AppSecret) /\ process_payment_webhook(h, w))
               => (/\ last'.code \in AuthenticationError
                   /\ UNCHANGED <<orders_db, products_db>>)]_vars

\* C16: WebhookHandler.verify_signature is false for every signature header
\* that does not start with "sha256=", the bare correct digest included, so
\* the handler answers such a request 403.
C16_PrefixRequired ==
    [][(layer = "crud" /\ last'.op = "webhook") =>
         \A w \in Payloads : \A h \in Signatures(w) :
            (h.present /\ ~h.prefix /\ WebhookHandler_process_payment_webhook(h, w))
            => (~verify_signature(w, h) /\ last'.code = 403)]_vars

\* the operations of ProductCRUD and OrderCRUD
CrudOps ==
    {"create_product", "update_product", "delete_product",
     "create_order", "update_order", "cancel_order", "delete_order"}

\* C17: a ProductCRUD or OrderCRUD call that ends in an error leaves
\* memory_store.products, memory_store.orders, product_counter and
\* order_counter exactly as they were before the call.
C17_FailedCallChangesNothing ==
    [][(layer = "crud" /\ last'.op \in CrudOps /\ ~Returned(last')) =>
         UNCHANGED <<products, orders, product_counter, order_counter>>]_vars

\* C17 witness: with two products and an order in the store, the change of a
\* sku to the sku of the other product has just been refused
C17_Witness ==
    /\ layer = "crud"
    /\ last = Call("update_product", 409, "-")
    /\ Cardinality(DOMAIN products) = 2
    /\ orders # Empty

\* C18: memory_store.reset() returns the application of app/main.py to its
\* initial empty state: right after a reset GET /products returns nothing,
\* and a product created next gets the id 1 and is the only one listed.
C18_ResetEmptiesService ==
    [][layer = "app" =>
         /\ last'.op = "reset" => get_products' = {}
         /\ (last.op = "reset" /\ last'.op = "create_product" /\ Returned(last'))
            => (DOMAIN products_db' = {1} /\ Cardinality(get_products') = 1)]_vars

ProductFields == {"sku", "name", "price", "stock"}

\* product i of the store `after` is product i of `before` with exactly the
\* fields of the patch set to the values of the patch; no product came or
\* went and every other product is as it was
PatchedOnly(before, after, i, u) ==
    /\ DOMAIN after = DOMAIN before
    /\ \A f \in ProductFields :
          after[i][f] = IF f \in u.set THEN u[f] ELSE before[i][f]
    /\ \A j \in DOMAIN before \ {i} : after[j] = before[j]

\* C19: an update_product(id, patch) call that returns has changed exactly
\* the fields supplied in the patch, to the supplied values, and nothing
\* else: no other field, no other product, no order, no counter, in
\* ProductCRUD.update_product and in PUT /products/{id} alike.
C19_UpdateProductFrame ==
    [][(last'.op = "update_product" /\ Returned(last')) =>
         /\ layer = "crud" =>
               \A i \in CatalogIds : \A u \in FieldPatches :
                  ProductCRUD_update_product(i, u) =>
                     /\ PatchedOnly(products, products', i, u)
                     /\ UNCHANGED <<orders, product_counter, order_counter>>
         /\ layer = "app" =>
               \A i \in CatalogIds : \A u \in FieldPatches :
                  update_product(i, u) =>
                     /\ PatchedOnly(products_db, products_db', i, u)
                     /\ UNCHANGED <<orders_db, db_product_counter,
                                    db_order_counter>>]_vars

\* C19 witness: with two products and an order in the store, an update has
\* just changed the name and the price of product 1 and nothing else
C19_Witness ==
    /\ last = Call("update_product", 200, "-")
    /\ \E store \in {products, products_db} :
          /\ DOMAIN store = {1, 2}
          /\ store[1].name = "n2" /\ store[1].price = 2 /\ store[1].stock = 1
          /\ store[2].name = "n1" /\ store[2].price = 1 /\ store[2].stock = 0
    /\ orders # Empty \/ orders_db # Empty

\* the operations of the product store
ProductOps == {"create_product", "update_product", "delete_product"}

\* every product that is in the store before and after has the stock it had
SameStock(before, after) ==
    \A i \in DOMAIN before \cap DOMAIN after : after[i].stock = before[i].stock

\* C20: single-writer ownership.  No create_product, update_product or
\* delete_product call changes the stock of a product that exists before
\* and after it, or the status of an order; only the order operations do.
C20_SingleWriter ==
    [][last'.op \in ProductOps =>
         /\ SameStock(products, products') /\ orders' = orders
         /\ SameStock(products_db, products_db') /\ orders_db' = orders_db]_vars

\* C20 as amended: the stock of an existing product changes only through
\* the order operations and through an update_product whose patch supplies
\* stock.  create_product, delete_product and an update_product without
\* stock in its patch leave the stock of every product that stays, and no
\* product-store operation changes an order.
C20_SingleWriterButStockPatch ==
    [][last'.op \in ProductOps =>
         /\ orders' = orders /\ orders_db' = orders_db
         /\ last'.op # "update_product" =>
               SameStock(products, products') /\ SameStock(products_db, products_db')
         /\ (layer = "crud" /\ last'.op = "update_product") =>
               \A i \in CatalogIds : \A u \in FieldPatches :
                  ("stock" \notin u.set /\ ProductCRUD_update_product(i, u))
                  => SameStock(products, products')
         /\ (layer = "app" /\ last'.op = "update_product") =>
               \A i \in CatalogIds : \A u \in FieldPatches :
                  ("stock" \notin u.set /\ update_product(i, u))
                  => SameStock(products_db, products_db')]_vars

\* C20 witness: an update has just set the name of a product to null while
\* an order holds a unit of it; its stock is still the 0 the order left
C20_Witness ==
    /\ last = Call("update_product", 200, "-")
    /\ \E store \in {products, products_db} : \E os \in {orders, orders_db} :
          \E i \in DOMAIN store \cap {os[k].product_id : k \in DOMAIN os} :
             store[i].name = None /\ store[i].stock = 0

----------------------------------------------------------------------------
(* The smoke test against the served application *)

\* smoke_test.py:82-92: "sha256=" followed by the hex digest of the body
\* under the secret the script takes when WEBHOOK_SECRET is unset
SmokeTestHeader(w) ==
    [present |-> TRUE, prefix |-> TRUE, enc |-> "hex", secret |-> HandlerSecret,
     signed |-> w]

\* C21: the signer of the smoke test and the verifier of the served
\* application agree.  A payment.succeeded body for a PENDING order that is
\* posted to the application's route with the smoke test's header is
\* answered 200 and the order is PAID afterwards.
C21_SmokeTestAccepted ==
    [][layer = "app" =>
         \A w \in Bodies :
            (/\ w.event_type = PaymentSucceeded
             /\ w.order_id \in DOMAIN orders_db
             /\ orders_db[w.order_id].status = PENDING
             /\ process_payment_webhook(SmokeTestHeader(w), w))
            => /\ last'.code = 200
               /\ orders_db'[w.order_id].status = PAID]_vars

\* price > 0 and stock >= 0 (models.py:18-19), of a product of the store
InBounds(p) ==
    /\ p.price # NoneInt /\ p.price > 0
    /\ p.stock # NoneInt /\ p.stock >= 0

\* C22: product bounds invariant.  Whatever calls with accepted inputs were
\* made, every product in the store has an integer stock >= 0 and a
\* price > 0.
C22_ProductBounds ==
    /\ \A i \in DOMAIN products : InBounds(products[i])
    /\ \A i \in DOMAIN products_db : InBounds(products_db[i])

\* C23: cancel_order restores stock exactly once per order.  Canceling a
\* PENDING or PAID order that was not canceled before adds the order's
\* quantity to the product's stock and sets the status to CANCELED; a
\* cancel_order on an order that cancel_order has canceled before, or on a
\* SHIPPED order, fails and leaves every stock as it was.
C23_CancelRestoresOnce ==
    [][last'.op = "cancel_order" =>
         \A i \in OrderIds :
            OrderCRUD_cancel_order(i) =>
               /\ (/\ i \in DOMAIN orders
                   /\ i \notin restored
                   /\ orders[i].status \in {PENDING, PAID})
                  => /\ Returned(last')
                     /\ orders'[i].status = CANCELED
                     /\ orders[i].product_id \in DOMAIN products
                     /\ products'[orders[i].product_id].stock =
                           products[orders[i].product_id].stock + orders[i].quantity
               /\ (\/ i \in restored
                   \/ i \in DOMAIN orders /\ orders[i].status = SHIPPED)
                  => /\ ~Returned(last')
                     /\ products' = products]_vars

\* C24: a validly signed delivery that fails because its order does not
\* exist (404) leaves the dedup set as it was; consequently a validly
\* signed payment.succeeded delivery for a PENDING order whose body was
\* never answered "processed" (it was delivered before the order existed,
\* or never) is processed and the order is PAID afterwards.
C24_FailedDeliveryNotRecorded ==
    [][layer = "crud" =>
         \A w \in Bodies : \A h \in Signatures(w) :
            (verify_signature(w, h) /\ WebhookHandler_process_payment_webhook(h, w))
            => /\ last'.code = 404 => processed_events' = processed_events
               /\ (/\ w.event_type = PaymentSucceeded
                   /\ w \notin delivered
                   /\ w.order_id \in DOMAIN orders
                   /\ orders[w.order_id].status = PENDING)
                  => /\ last'.result = "processed"
                     /\ orders'[w.order_id].status = PAID]_vars

----------------------------------------------------------------------------
(* WebhookHandler's replay protection, with event types and payment ids
   that contain underscores *)

\* event_type and payment_id are any strings (models.py:91-93)
UnderscoreTypes == {PaymentSucceeded, PaymentSucceeded \o <<"_", "x">>}
UnderscoreIds == {<<"pay">>, <<"x", "_", "pay">>}
DedupBodies == {w \in Payload(UnderscoreTypes, UnderscoreIds, OrderIds) : w.ok}

DedupOrders == OrderCreate(ProductIds, {1}, {PENDING})

\* products and orders are created, and events are delivered to the
\* handler, each with its valid signature
NextDedup ==
    \/ \E d \in NewProducts : ProductCRUD_create_product(d)
    \/ \E d \in DedupOrders : OrderCRUD_create_order(d)
    \/ \E w \in DedupBodies :
          WebhookHandler_process_payment_webhook(SmokeTestHeader(w), w)

SpecDedup == CrudInit /\ [][NextDedup]_vars

\* C25: the handler answers "duplicate" only to a delivery whose event_type,
\* payment_id and order_id are those of an earlier verified delivery; events
\* that differ in one of the three fields never suppress one another,
\* underscores in the fields or not.
C25_DuplicateOnlySameEvent ==
    [][last'.result = "duplicate" =>
         \A w \in DedupBodies :
            WebhookHandler_process_payment_webhook(SmokeTestHeader(w), w)
            => w \in verified]_vars

\* every stored order that is PENDING or PAID references a stored product
Referenced ==
    \A i \in DOMAIN orders :
       orders[i].status \in {PENDING, PAID} => orders[i].product_id \in DOMAIN products

\* C26: referential integrity.  In every state reached through ProductCRUD
\* and OrderCRUD calls each PENDING or PAID order references a product that
\* is in the store, and cancel_order on such an order is never answered
\* not-found.
C26_ReferentialIntegrity ==
    /\ [](Referenced)
    /\ [][last'.op = "cancel_order" =>
            \A i \in DOMAIN orders :
               (orders[i].status \in {PENDING, PAID} /\ OrderCRUD_cancel_order(i))
               => last'.code # 404]_vars

\* C26 witness: delete_product has just been refused, and a PAID order
\* references a product that is in the store
C26_Witness ==
    /\ last = Call("delete_product", 400, "-")
    /\ \E i \in DOMAIN orders :
          orders[i].status = PAID /\ orders[i].product_id \in DOMAIN products

\* C27: status domain invariant.  Whatever create_order, update_order (a
\* null status among the accepted updates), cancel_order and webhook calls
\* were made, the status of every stored order is one of PENDING, PAID,
\* SHIPPED, CANCELED.
C27_StatusDomain ==
    /\ \A i \in DOMAIN orders : orders[i].status \in OrderStatus
    /\ \A i \in DOMAIN orders_db : orders_db[i].status \in OrderStatus

====
